---- MODULE Spec2Model ----
(***************************************************************************)
(* Model of redcap_cleaner_streamlit.py: the transformation                *)
(* clean_and_align_redcap_data and the Streamlit handler that calls it.    *)
(*                                                                         *)
(* A DataFrame is a record [columns, dtypes, rows]; a row maps each column *)
(* name to a cell; a cell is NaN, a text (sequence of characters) or a     *)
(* number.  Text is modelled character by character so that str.lower,     *)
(* str.strip, str.contains and the "in" operator are computed, not assumed.*)
(***************************************************************************)
EXTENDS Integers, Sequences, FiniteSets, TLC

VARIABLES uploaded, df, profile_pattern, period_pattern, pc, cleaned, shown, again

vars == <<uploaded, df, profile_pattern, period_pattern, pc, cleaned, shown, again>>

----------------------------------------------------------------------------
(* Bounds of the enumerated inputs *)

MaxRows == 3
MaxCaseRows == 2
MaxId == 2
MaxRepeat == 2

----------------------------------------------------------------------------
(* Cells *)

NaN == [t |-> "nan", s |-> <<>>, n |-> 0]
Str(x) == [t |-> "str", s |-> x, n |-> 0]
Num(k) == [t |-> "num", s |-> <<>>, n |-> k]

----------------------------------------------------------------------------
(* Column names *)

id_col == "Record ID"
event_col == "Event Name"
repeat_col == "Repeat Instance"
sort_key_col == "Sort_Key"

key_fields ==
  << "Research output title", "APA reference citation of Publication",
     "Date of publication", "Publication Year", "Name of the publishing Journal" >>

KeyFieldSet == { key_fields[i] : i \in 1..Len(key_fields) }

RequiredColumns == {id_col, event_col, repeat_col} \cup KeyFieldSet

----------------------------------------------------------------------------
(* Text functions *)

LowerChar(c) ==
  CASE c = "P" -> "p"
    [] c = "R" -> "r"
    [] c = "E" -> "e"
    [] OTHER -> c

LowerText(x) == [i \in 1..Len(x) |-> LowerChar(x[i])]

IsSpace(c) == c = " "

RECURSIVE LStrip(_)
LStrip(x) == IF x # <<>> /\ IsSpace(Head(x)) THEN LStrip(Tail(x)) ELSE x

RECURSIVE RStrip(_)
RStrip(x) ==
  IF x # <<>> /\ IsSpace(x[Len(x)]) THEN RStrip(SubSeq(x, 1, Len(x) - 1)) ELSE x

Strip(x) == RStrip(LStrip(x))

\* pattern occurs in x as a contiguous run of characters
Contains(x, pattern) ==
  \E i \in 0..(Len(x) - Len(pattern)) : SubSeq(x, i + 1, i + Len(pattern)) = pattern

----------------------------------------------------------------------------
(* Series functions *)

\* Series.str.lower(): text is lowercased, anything else becomes NaN
StrLower(c) == IF c.t = "str" THEN Str(LowerText(c.s)) ELSE NaN

\* Series.str.contains(pattern, na=False)
StrContains(c, pattern) == c.t = "str" /\ Contains(c.s, pattern)

\* x.str.strip() == ''
StripIsEmpty(c) == c.t = "str" /\ Strip(c.s) = <<>>

ColumnValues(rows, col) == { rows[i][col] : i \in 1..Len(rows) }

\* the .str accessor refuses a numeric column and an object column that
\* holds numbers only
StrAccessorOk(dtype, rows, col) ==
  /\ dtype = "object"
  /\ LET present == { c \in ColumnValues(rows, col) : c.t # "nan" }
     IN  ~ (present # {} /\ \A c \in present : c.t = "num")

\* the dtype pd.read_csv gives a column
InferDtype(rows, col) ==
  IF Len(rows) > 0 /\ \A c \in ColumnValues(rows, col) : c.t # "str"
  THEN "float64" ELSE "object"

DataFrame(cols, rows) ==
  [columns |-> cols, dtypes |-> [c \in cols |-> InferDtype(rows, c)], rows |-> rows]

EmptyFrame == [columns |-> {}, dtypes |-> [c \in {} |-> "object"], rows |-> <<>>]

----------------------------------------------------------------------------
(* DataFrame.sort_values(by=[id, Sort_Key, Repeat Instance]): a stable      *)
(* lexicographic sort, NaN last                                            *)

\* the value of an expression, computed once
Only(S) == CHOOSE x \in S : TRUE

\* order of two cells of one sort column; NaN sorts after every number
CellLess(a, b) == a.t = "num" /\ (b.t = "nan" \/ a.n < b.n)

Sort_Key(row, pattern) == IF Contains(row[event_col].s, pattern) THEN 0 ELSE 1

\* the three sort columns of a row
SortColumns(row, pattern) ==
  [id |-> row[id_col], key |-> Sort_Key(row, pattern), repeat |-> row[repeat_col]]

\* the sort without its Sort_Key column
SortLessNoKey(a, b) ==
  \/ CellLess(a.id, b.id)
  \/ a.id = b.id /\ CellLess(a.repeat, b.repeat)

SortLess(a, b) ==
  \/ CellLess(a.id, b.id)
  \/ /\ a.id = b.id
     /\ \/ a.key < b.key
        \/ a.key = b.key /\ CellLess(a.repeat, b.repeat)

\* stable: rows that compare equal keep their order
SortByColumns(rows, by) ==
  LET n == Len(rows)
      Before(j, i) == SortLess(by[j], by[i]) \/ (~ SortLess(by[i], by[j]) /\ j < i)
  IN  Only({ [k \in 1..n |-> rows[CHOOSE i \in 1..n : pos[i] = k]] :
             pos \in { [i \in 1..n |-> 1 + Cardinality({ j \in 1..n : Before(j, i) })] } })

SortRows(rows, pattern) ==
  Only({ SortByColumns(rows, by) :
         by \in { [i \in 1..Len(rows) |-> SortColumns(rows[i], pattern)] } })

\* the frame is evaluated once, then sorted
SortValues(frame, pattern) == Only({ SortRows(rows, pattern) : rows \in {frame} })

\* DataFrame.drop(columns=[col]) on the rows
DropColumn(rows, cols, col) ==
  [i \in 1..Len(rows) |-> [c \in cols \ {col} |-> rows[i][c]]]

----------------------------------------------------------------------------
(* clean_and_align_redcap_data *)

\* the call raised: no table is returned; input is the caller's DataFrame
\* as the call left it
Raised(exc, names, input) ==
  [status |-> "raised", exc |-> exc, names |-> names, input |-> input,
   table |-> EmptyFrame]

Returned(input, table) ==
  [status |-> "returned", exc |-> "none", names |-> {}, input |-> input,
   table |-> table]

\* what the caller receives: the returned table or the exception
Outcome(r) == [status |-> r.status, exc |-> r.exc, names |-> r.names, table |-> r.table]

NotCalled == [status |-> "none", exc |-> "none", names |-> {}, table |-> EmptyFrame]

\* line 15: the lowercased event column is assigned into the caller's frame
LowerEvents(tbl) ==
  [tbl EXCEPT !.rows =
     [i \in 1..Len(tbl.rows) |-> [tbl.rows[i] EXCEPT ![event_col] = StrLower(@)]]]

\* lines 18-19: rows whose event contains the pattern
MatchRows(rows, pattern) ==
  LET Hit(r) == StrContains(r[event_col], pattern) IN SelectSeq(rows, Hit)

\* line 26: dropna(subset=key_fields, how='all')
DropNaPeriods(rows) ==
  LET SomeKey(r) == \E f \in KeyFieldSet : r[f].t # "nan" IN SelectSeq(rows, SomeKey)

\* line 27: drop the rows whose key fields all strip to ''
DropEmptyPeriods(rows) ==
  LET Kept(r) == ~ (\A f \in KeyFieldSet : StripIsEmpty(r[f])) IN SelectSeq(rows, Kept)

\* line 27 raises when the frame has rows and a key column has no .str
KeyFieldsHaveStr(tbl, rows) ==
  Len(rows) = 0 \/ \A f \in KeyFieldSet : StrAccessorOk(tbl.dtypes[f], rows, f)

Ids(rows) == { rows[i][id_col] : i \in 1..Len(rows) }

\* lines 35-36: isin(valid_ids)
RestrictIds(rows, ids) ==
  LET Valid(r) == r[id_col] \in ids IN SelectSeq(rows, Valid)

\* lines 38-53: concatenate, sort, drop the sort key
SortedResult(work, result_df, pattern) ==
  IF repeat_col \notin work.columns THEN Raised("KeyError", {repeat_col}, work)
  ELSE Returned(work,
         [columns |-> work.columns \ {sort_key_col},
          dtypes  |-> [c \in work.columns \ {sort_key_col} |-> work.dtypes[c]],
          rows    |-> DropColumn(SortValues(result_df, pattern), work.columns, sort_key_col)])

\* lines 29-39: the ids with both kinds of row, and the rows of those ids
AlignFiltered(work, profile_df, period_df, pattern) ==
  IF id_col \notin work.columns THEN Raised("KeyError", {id_col}, work)
  ELSE Only({ SortedResult(work,
                RestrictIds(profile_df, valid_ids) \o RestrictIds(period_df, valid_ids),
                pattern) :
              valid_ids \in { Ids(profile_df) \cap Ids(period_df) } })

\* line 27
AlignPeriods(work, profile_df, notna, pattern) ==
  IF ~ KeyFieldsHaveStr(work, notna) THEN Raised("AttributeError", {}, work)
  ELSE Only({ AlignFiltered(work, profile_df, period_df, pattern) :
              period_df \in { DropEmptyPeriods(notna) } })

\* lines 18-26
AlignLowered(work, profile_pat, period_pat) ==
  IF ~ (KeyFieldSet \subseteq work.columns)
  THEN Raised("KeyError", KeyFieldSet \ work.columns, work)
  ELSE Only({ AlignPeriods(work, profile_df, notna, profile_pat) :
              profile_df \in { MatchRows(work.rows, profile_pat) },
              notna \in { DropNaPeriods(MatchRows(work.rows, period_pat)) } })

clean_and_align_redcap_data(tbl, profile_pat, period_pat) ==
  IF event_col \notin tbl.columns THEN Raised("KeyError", {event_col}, tbl)
  ELSE IF ~ StrAccessorOk(tbl.dtypes[event_col], tbl.rows, event_col)
  THEN Raised("AttributeError", {}, tbl)
  ELSE Only({ AlignLowered(work, profile_pat, period_pat) : work \in { LowerEvents(tbl) } })

----
(* The Streamlit handler, lines 63-93 *)

\* what the handler shows for the outcome of the call
Display(r) ==
  IF r.status = "raised"
  THEN [kind |-> "error", names |-> r.names, records |-> 0, unique |-> 0]
  ELSE IF Len(r.table.rows) > 0
  THEN [kind |-> "download", names |-> {}, records |-> Len(r.table.rows),
        unique |-> Cardinality(Ids(r.table.rows))]
  ELSE [kind |-> "no valid data", names |-> {}, records |-> 0, unique |-> 0]

NothingShown == [kind |-> "none", names |-> {}, records |-> 0, unique |-> 0]

----------------------------------------------------------------------------
(* Enumerated inputs *)

PROFILE == <<"p", "r">>
PERIOD == <<"p", "e">>

\* key-field contents of one row
AllText == [f \in KeyFieldSet |-> Str(<<"a">>)]
PaddedText == [f \in KeyFieldSet |-> IF f = key_fields[1] THEN Str(<<" ", "a", " ">>) ELSE NaN]
AllNaN == [f \in KeyFieldSet |-> NaN]
AllEmpty == [f \in KeyFieldSet |-> IF f = key_fields[1] THEN Str(<<>>) ELSE Str(<<" ">>)]
MixedBlank == [f \in KeyFieldSet |-> IF f = key_fields[1] THEN Str(<<" ">>) ELSE NaN]
YearNumber == [f \in KeyFieldSet |-> IF f = key_fields[4] THEN Num(2020) ELSE Str(<<"a">>)]

MkRow(cols, id, event, repeat, keys) ==
  [c \in cols |->
     CASE c = id_col -> Num(id)
       [] c = event_col -> event
       [] c = repeat_col -> repeat
       [] c = sort_key_col -> Num(7)
       [] OTHER -> keys[c]]

RowsOf(cols, ids, events, repeats, keysets) ==
  { MkRow(cols, id, ev, rp, ks) :
      id \in ids, ev \in events, rp \in repeats, ks \in keysets }

RepeatValues == { Num(k) : k \in 1..MaxRepeat } \cup { NaN }

BothPatterns == PROFILE \o <<"_">> \o PERIOD

\* rows for the ordering of the rows of one subject
OrderRows ==
  RowsOf(RequiredColumns, {1}, { Str(PROFILE), Str(PERIOD), Str(BothPatterns) },
         RepeatValues, { AllText })

\* rows for several subjects
SubjectRows ==
  RowsOf(RequiredColumns, 1..MaxId, { Str(PROFILE), Str(PERIOD), Str(BothPatterns) },
         { Num(k) : k \in 1..MaxRepeat }, { AllText })

\* rows for the blank-period filter
BlankRows ==
  RowsOf(RequiredColumns, {1}, { Str(PROFILE), Str(PERIOD) }, { Num(1) },
         { AllText, PaddedText, AllNaN, AllEmpty, MixedBlank, YearNumber })

\* rows for the letter case of events and patterns
CaseRows ==
  RowsOf(RequiredColumns, {1},
         { Str(PROFILE), Str(<<"P", "r">>), Str(PERIOD), Str(<<"P", "E">>),
           Str(BothPatterns), Str(<<"x">>), NaN },
         { Num(1) }, { AllText, AllNaN })

ProfilePatterns == { PROFILE, <<"P", "r">>, <<>> }
PeriodPatterns == { PERIOD, <<"P", "e">>, <<>> }

\* the column sets: complete, with a user column named Sort_Key, and with
\* one required column missing
ColumnSets ==
  { RequiredColumns, RequiredColumns \cup {sort_key_col} }
    \cup { RequiredColumns \ {c} : c \in RequiredColumns }

ColumnRows(cols) ==
  RowsOf(cols, {1}, { Str(<<"P", "r">>), Str(PERIOD) }, { Num(k) : k \in 1..MaxRepeat },
         { AllText, YearNumber })

----------------------------------------------------------------------------
(* State machine *)

\* a frame of at most maxrows rows has been read, the call not yet made
InitWith(cols, rowset, maxrows, profiles, periods) ==
  /\ \E n \in 0..maxrows : \E rows \in [1..n -> rowset] :
        uploaded = DataFrame(cols, rows)
  /\ df = uploaded
  /\ profile_pattern \in profiles
  /\ period_pattern \in periods
  /\ pc = "uploaded"
  /\ cleaned = NotCalled
  /\ shown = NothingShown
  /\ again = NotCalled

Init ==
  \/ InitWith(RequiredColumns, OrderRows, MaxRows, {PROFILE}, {PERIOD})
  \/ InitWith(RequiredColumns, SubjectRows, MaxCaseRows, {PROFILE}, {PERIOD})
  \/ InitWith(RequiredColumns, BlankRows, MaxRows, {PROFILE}, {PERIOD})
  \/ InitWith(RequiredColumns, CaseRows, MaxCaseRows, ProfilePatterns, PeriodPatterns)
  \/ \E cols \in ColumnSets :
        InitWith(cols, ColumnRows(cols), MaxCaseRows, {PROFILE}, {PERIOD})

\* lines 63-93: the handler calls the function on the uploaded frame and
\* shows the outcome; the function writes into the frame it is given
Process ==
  /\ pc = "uploaded"
  /\ \E r \in { clean_and_align_redcap_data(df, profile_pattern, period_pattern) } :
         /\ df' = r.input
         /\ cleaned' = Outcome(r)
         /\ shown' = Display(r)
  /\ pc' = "shown"
  /\ UNCHANGED <<uploaded, profile_pattern, period_pattern, again>>

\* the function called on its own output with the same patterns
Realign ==
  /\ pc = "shown"
  /\ cleaned.status = "returned"
  /\ \E r \in { clean_and_align_redcap_data(cleaned.table, profile_pattern, period_pattern) } :
         /\ again' = Outcome(r)
         /\ cleaned' = [cleaned EXCEPT !.table = r.input]
  /\ pc' = "realigned"
  /\ UNCHANGED <<uploaded, df, profile_pattern, period_pattern, shown>>

Next == Process \/ Realign

Spec == Init /\ [][Next]_vars

----------------------------------------------------------------------------
(* Vocabulary of the properties *)

Called == pc # "uploaded"
ReturnedTable == Called /\ cleaned.status = "returned"
Out == cleaned.table.rows
OutIdx == 1..Len(Out)
InIdx == 1..Len(uploaded.rows)

\* a row is Profile (Period) when its event contains the pattern, ignoring
\* letter case
ClassifiedProfile(row) ==
  row[event_col].t = "str"
    /\ Contains(LowerText(row[event_col].s), LowerText(profile_pattern))

ClassifiedPeriod(row) ==
  row[event_col].t = "str"
    /\ Contains(LowerText(row[event_col].s), LowerText(period_pattern))

\* a key field is empty when it is absent or empty/whitespace-only text
KeyEmpty(c) == c.t = "nan" \/ (c.t = "str" /\ Strip(c.s) = <<>>)

BlankKeys(row) == \A f \in KeyFieldSet : KeyEmpty(row[f])

NonEmptyPatterns == profile_pattern # <<>> /\ period_pattern # <<>>

\* the output row is the input row with its event lowercased
CarriedFrom(out, in) ==
  \A c \in cleaned.table.columns :
     out[c] = IF c = event_col THEN StrLower(in[c]) ELSE in[c]

RepeatLeq(a, b) == ~ CellLess(b[repeat_col], a[repeat_col])

SameSubject(i, j) == Out[i][id_col] = Out[j][id_col]

----------------------------------------------------------------------------
(* C1 *)

\* C1: with non-empty patterns, every subject id of the output has a
\* Profile row and a Period row with a non-empty key field in the output.
C1_PairedSubjects ==
  (ReturnedTable /\ NonEmptyPatterns) =>
    \A i \in OutIdx :
       /\ \E j \in OutIdx : SameSubject(i, j) /\ ClassifiedProfile(Out[j])
       /\ \E j \in OutIdx :
             SameSubject(i, j) /\ ClassifiedPeriod(Out[j]) /\ ~ BlankKeys(Out[j])

(* C2 *)

\* C2: no Period row whose five key fields are all empty (absent or
\* whitespace, in any mix) appears in the output.
C2_NoBlankPeriod ==
  ReturnedTable => \A i \in OutIdx : ~ (ClassifiedPeriod(Out[i]) /\ BlankKeys(Out[i]))

(* C3 *)

\* C3 as stated: per subject, every Profile row precedes every Period row,
\* and the Profile rows and the Period rows are each non-decreasing by
\* repeat instance.
C3_ProfileBeforePeriod ==
  ReturnedTable =>
    \A i, j \in OutIdx :
       (i # j /\ SameSubject(i, j)) =>
          /\ (ClassifiedProfile(Out[i]) /\ ClassifiedPeriod(Out[j])) => i < j
          /\ (i < j /\ ClassifiedProfile(Out[i]) /\ ClassifiedProfile(Out[j]))
                => RepeatLeq(Out[i], Out[j])
          /\ (i < j /\ ClassifiedPeriod(Out[i]) /\ ClassifiedPeriod(Out[j]))
                => RepeatLeq(Out[i], Out[j])

HasProfilePattern(row) == Contains(row[event_col].s, profile_pattern)

\* C3 amended: per subject, the rows whose event contains profile_pattern
\* precede the subject's other rows, and each of these two groups is
\* non-decreasing by repeat instance, a missing repeat instance last.
C3_SortKeyOrder ==
  ReturnedTable =>
    \A i, j \in OutIdx :
       (i < j /\ SameSubject(i, j)) =>
          /\ HasProfilePattern(Out[j]) => HasProfilePattern(Out[i])
          /\ (HasProfilePattern(Out[i]) <=> HasProfilePattern(Out[j]))
                => RepeatLeq(Out[i], Out[j])

\* the sort moved rows: two rows of the profile group came in the opposite
\* order in the upload and are followed by a row of the other group
C3_Witness ==
  /\ pc = "shown"
  /\ cleaned.status = "returned"
  /\ \E i, j, k \in OutIdx :
        /\ i < j /\ j < k
        /\ SameSubject(i, j) /\ SameSubject(j, k)
        /\ HasProfilePattern(Out[i]) /\ HasProfilePattern(Out[j])
        /\ ~ HasProfilePattern(Out[k])
        /\ CellLess(Out[i][repeat_col], Out[j][repeat_col])
        /\ \E a, b \in InIdx :
              /\ a < b
              /\ CarriedFrom(Out[j], uploaded.rows[a])
              /\ CarriedFrom(Out[i], uploaded.rows[b])

----------------------------------------------------------------------------
(* C4 *)

\* C4: after the call, returned or failed, the caller's table is what was
\* uploaded, letter case of the events included.
C4_InputNotMutated == Called => df = uploaded

(* C5 *)

HoldsValue(row) ==
  \E f \in KeyFieldSet : row[f].t = "num" \/ (row[f].t = "str" /\ Strip(row[f].s) # <<>>)

\* C5: when the table has a Period row with a number or non-blank text in
\* a key field, the call does not fail, and the row is in the output if its
\* subject has a Profile row.
C5_ValuedPeriodSurvives ==
  (Called /\ NonEmptyPatterns /\ RequiredColumns \subseteq uploaded.columns) =>
    \A a \in InIdx :
       (ClassifiedPeriod(uploaded.rows[a]) /\ HoldsValue(uploaded.rows[a])) =>
          /\ cleaned.status = "returned"
          /\ (\E b \in InIdx :
                 /\ uploaded.rows[b][id_col] = uploaded.rows[a][id_col]
                 /\ ClassifiedProfile(uploaded.rows[b]))
               => \E i \in OutIdx : CarriedFrom(Out[i], uploaded.rows[a])

(* C6 *)

\* C6: the function applied to its own output returns that output.
C6_Idempotent ==
  pc = "realigned" =>
    /\ again.status = "returned"
    /\ again.table.columns = cleaned.table.columns
    /\ again.table.rows = cleaned.table.rows

(* C7 *)

\* what lines 15 and 18-19 compute for a row of the upload
MatchedProfile(row) == StrContains(StrLower(row[event_col]), profile_pattern)
MatchedPeriod(row) == StrContains(StrLower(row[event_col]), period_pattern)

\* C7: a row is matched as Profile (Period) exactly when its event contains
\* the pattern ignoring letter case, and the events of the output are
\* lowercase.
C7_CaseInsensitive ==
  (Called /\ event_col \in uploaded.columns) =>
    /\ \A a \in InIdx :
          /\ MatchedProfile(uploaded.rows[a]) <=> ClassifiedProfile(uploaded.rows[a])
          /\ MatchedPeriod(uploaded.rows[a]) <=> ClassifiedPeriod(uploaded.rows[a])
    /\ ReturnedTable => \A i \in OutIdx : Out[i][event_col] = StrLower(Out[i][event_col])

(* C8 *)

\* C8: with an empty pattern the call fails with InvalidArgument.
C8_EmptyPatternRejected ==
  (Called /\ ~ NonEmptyPatterns) =>
    cleaned.status = "raised" /\ cleaned.exc = "InvalidArgument"

(* C9 *)

\* C9: when a required column is absent the call fails and the error names
\* an absent column.
C9_MissingColumnNamed ==
  (Called /\ ~ (RequiredColumns \subseteq uploaded.columns)) =>
    /\ cleaned.status = "raised"
    /\ cleaned.names # {}
    /\ cleaned.names \subseteq RequiredColumns \ uploaded.columns
    /\ shown.kind = "error" /\ shown.names = cleaned.names

(* C10 *)

\* C10: the output has exactly the columns of the input, and each output
\* row equals an input row on every column but the event.
C10_RowsCarriedThrough ==
  ReturnedTable =>
    /\ cleaned.table.columns = uploaded.columns
    /\ \A i \in OutIdx : \E a \in InIdx :
          \A c \in uploaded.columns \ {event_col} : Out[i][c] = uploaded.rows[a][c]

====
